---- MODULE Spec2Model ----
(***************************************************************************)
(* Room session manager and fan-out engine of the translation relay        *)
(* (main.py: websocket_endpoint and the broadcast_* helpers).              *)
(*                                                                         *)
(* Every connection is one asyncio task.  Tasks interleave only at an      *)
(* await, so one action of this model is: the awaited operation of the     *)
(* task's current position completes, and the task runs its synchronous    *)
(* code up to the next await.  conn[c].pc names the await the task is      *)
(* suspended in.                                                           *)
(***************************************************************************)
EXTENDS Integers, Sequences, FiniteSets, TLC

\* ------------------------------------------------------------------ bounds
NumConns == 3
\* connections that connect in the life-cycle specification
MaxClients == 2
\* speech events dispatched in one run of the speech specification
MaxSpeech == 1
\* signaling events received in one run of the signaling specification
MaxSignal == 2
\* events of an unhandled type received in one run of the event specification
MaxOther == 2

Conns == 1..NumConns
RoomIds == {"R1", "R2"}
UserIds == {"u1", "u2"}
Passwords == {"", "p"}
CREATE == "CREATE"

\* A language tag is the sequence of its subtags: "en-US" is <<"en","US">>.
Tags == {<<"en", "US">>, <<"en", "GB">>, <<"fr", "FR">>, <<"zh", "CN">>,
         <<"zh", "TW">>, <<"de">>}

VARIABLES rooms, redis, conn
vars == <<rooms, redis, conn>>

\* ------------------------------------------------------ dict (room.users)
\* A dict keeps its entries in insertion order; a deleted entry leaves a
\* hole (0) that iteration skips.  The rooms of this model never hold more
\* than NumConns insertions, so the entry table is never compacted.
Hole == 0
DictKeys(d) == {d[i] : i \in 1..Len(d)} \ {Hole}
DictUsed(d) == Cardinality(DictKeys(d))
DictAdd(d, k) == Append(d, k)
\* mutant of DictDel: the entry stays
DictDelNothing(d, k) == d

DictDel(d, k) == [i \in 1..Len(d) |-> IF d[i] = k THEN Hole ELSE d[i]]
\* position of the first live entry after position p, 0 when there is none
DictScan(d, p) ==
  LET live == {i \in 1..Len(d) : i > p /\ d[i] # Hole}
  IN IF live = {} THEN 0 ELSE CHOOSE i \in live : \A j \in live : i <= j

\* --------------------------------------------------------------- positions
\* The await a task is suspended in.
\*   accept      websocket.receive_text() of the handshake        (l.403)
\*   c_hset      redis hset, create path                          (l.437)
\*   c_sadd      redis sadd, create path                          (l.445)
\*   j_hset      redis hset, auto-create of an explicit id        (l.469)
\*   j_sadd      redis sadd, auto-create of an explicit id        (l.477)
\*   rej_send    send_json of the error event                     (l.484)
\*   rej_close   websocket.close()                                (l.485)
\*   joined_send send_json of room_joined                         (l.519)
\*   lj_ps       send_json of presentation_started to the joiner  (l.539)
\*   lj_nv       send_json of new_viewer to the presenter         (l.547)
\*   sys_send    send_json inside broadcast_system_message        (l.245)
\*   pl_send     send_json inside broadcast_participant_list      (l.229)
\*   recv        websocket.receive_text() of the main loop        (l.560)
\*   ps_send     send_json of presentation_started, start loop    (l.594)
\*   st_send     send_json of presentation_stopped, stop loop     (l.605)
\*   sig_send    send_json of a signaling event to its target     (l.581)
\*   sp_tr       translator.translate of the current group         (l.290)
\*   sp_tts      tts.generate_audio of the current group          (l.298)
\*   sp_send     send_json of the message event                   (l.337)
\*   cl_del      redis delete in the cleanup block                (l.639)
\*   cl_srem     redis srem in the cleanup block                  (l.640)
\*   closed      the task has ended
\* The locals of broadcast_translation.  groups: users_by_language, in dict
\* order; gi, ui: the group and the user the loops are at; text: the
\* translated_text of the current group; data: language_data, one entry per
\* finished group.  snap, calls and sent record the members the room had
\* when the dispatch started, the oracle and synthesizer calls with their
\* outcomes, and the message events sent; done says that the dispatch has
\* returned; n counts the speech events of the task.
NoText == [body |-> "", in |-> <<>>]
NoSpeech ==
  [groups |-> <<>>, gi |-> 0, ui |-> 0, text |-> NoText, data |-> <<>>,
   snap |-> {}, calls |-> <<>>, sent |-> <<>>, done |-> FALSE, n |-> 0]

\* The last signaling event of the task.  target: data["target"], "" when
\* the event has none; to: the connection the search of l.577-578 stopped
\* at, 0 when it found none; sent: the events handed to a socket, with the
\* sender they carry; n counts the signaling events of the task.
NoSignal == [target |-> "", to |-> 0, sent |-> <<>>, n |-> 0]

NoIter == [pos |-> 0, used |-> 0, len |-> 0, obj |-> 0, tgt |-> 0, excl |-> ""]

\* The history of a connection.  tok: the connection came with a valid
\* token (authenticated_user, l.383-385); dbok: whether the database will
\* carry out create_room_session and end_room_session for it; hist: its row
\* of room_sessions: "none", "open" (joined_at set) or "ended" (left_at set).
DbAnswers == [create |-> TRUE, end |-> TRUE]

\* the sockets a broadcast of the task has sent to so far, and the
\* participants list its broadcast_participant_list has built
NoSent == [sys |-> {}, pl |-> {}, list |-> <<>>]

FreshConn ==
  [pc |-> "accept", alive |-> TRUE, uid |-> "", lang |-> <<>>, rid |-> "", pw |-> "",
   pub |-> TRUE, isuser |-> FALSE, ctx |-> "", it |-> NoIter, sp |-> NoSpeech,
   sig |-> NoSignal, nother |-> 0, tok |-> FALSE, dbok |-> DbAnswers, hist |-> "none",
   bsent |-> NoSent,
   \* history of the task, read only by the properties
   wrongpw |-> FALSE, nerr |-> 0, sclosed |-> FALSE,
   ljp |-> "", ljx |-> FALSE, ljm |-> 0, nps |-> 0, nnv |-> 0, psent |-> {}]

\* a task that has ended keeps nothing but its row of room_sessions
ClosedConn == [FreshConn EXCEPT !.pc = "closed", !.alive = FALSE]

\* ------------------------------------------------------------------- Room
\* Room(...) of l.424 and l.457; a None password is "", no presenter is "".
\* by: the connection whose handshake constructed this Room object.
NewRoom(c, pub, pw) ==
  [users |-> <<>>, is_public |-> pub, password |-> pw,
   active_presenter |-> "", by |-> c]

RoomDel(R, rid) == [x \in DOMAIN R \ {rid} |-> R[x]]
RoomPut(R, rid, room) == [x \in DOMAIN R \cup {rid} |-> IF x = rid THEN room ELSE R[x]]

\* mutant of PasswordRejects: the comparison inverted
PasswordRejectsEqual(stored, supplied) == stored # "" /\ stored = supplied

\* l.483: room.password and room.password != req_password
PasswordRejects(stored, supplied) == stored # "" /\ stored # supplied

\* websocket.send_json to connection t succeeds iff its socket is open
SendOk(cn, t) == cn[t].alive

\* --------------------------------------------------------- dict iteration
\* The dict object an iterator walks: room.users of the Room object built by
\* connection obj.  A Room object that left the registry was emptied first.
IterDict(R, rid, obj) ==
  IF rid \in DOMAIN R /\ R[rid].by = obj THEN R[rid].users ELSE <<>>

IterNew(R, rid, excl) ==
  [pos |-> 0, used |-> DictUsed(R[rid].users), len |-> DictUsed(R[rid].users),
   obj |-> R[rid].by, tgt |-> 0, excl |-> excl]

\* next() of a dict values iterator, repeated while the loop body skips the
\* user (exclude_user, l.242; u.user_id != user_id, l.593).
RECURSIVE IterStep(_, _, _)
IterStep(d, it, cn) ==
  IF DictUsed(d) # it.used THEN [st |-> "raise", it |-> it]
  ELSE LET i == DictScan(d, it.pos) IN
       IF i = 0 THEN [st |-> "stop", it |-> it]
       ELSE IF it.len = 0 THEN [st |-> "raise", it |-> it]
       ELSE LET it2 == [it EXCEPT !.pos = i, !.len = @ - 1, !.tgt = d[i]] IN
            IF it.excl # "" /\ cn[d[i]].uid = it.excl
            THEN IterStep(d, it2, cn)
            ELSE [st |-> "send", it |-> it2]

\* ------------------------------------------------- synchronous code paths
\* Each operator below is the code a task runs without suspending, from the
\* values (R, D, cn) its step has produced so far to its next await.

\* the handler returns: the task ends and its socket is closed
Done(c, R, D, cn) ==
  /\ rooms' = R
  /\ redis' = D
  /\ conn' = [cn EXCEPT ![c] = [ClosedConn EXCEPT !.hist = cn[c].hist]]

Suspend(c, R, D, cn, pc, it) ==
  /\ rooms' = R
  /\ redis' = D
  /\ conn' = [cn EXCEPT ![c].pc = pc, ![c].it = it]

\* back to websocket.receive_text() at the top of the main loop (l.560)
ToRecv(c, R, D, cn) ==
  Suspend(c, R, D, [cn EXCEPT ![c].ctx = "", ![c].ljp = "", ![c].ljx = FALSE,
                            ![c].ljm = 0, ![c].nps = 0, ![c].nnv = 0,
                            ![c].psent = {}, ![c].bsent = NoSent],
          "recv", NoIter)

\* l.556 and l.648 return: into the main loop, or out of the finally block
AfterBroadcast(c, R, D, cn) ==
  IF cn[c].ctx = "leave" THEN Done(c, R, D, cn) ELSE ToRecv(c, R, D, cn)

\* l.216-224: one entry per User of the dict, in dict order
Participants(users, cn) ==
  LET live == SelectSeq(users, LAMBDA k : k # Hole)
  IN [i \in 1..Len(live) |->
        [conn |-> live[i], id |-> cn[live[i]].uid, language |-> cn[live[i]].lang]]

\* broadcast_participant_list up to its first send (l.209-229)
StartPl(c, R, D, cn) ==
  IF cn[c].rid \notin DOMAIN R THEN AfterBroadcast(c, R, D, cn)
  ELSE LET cn1 == [cn EXCEPT ![c].bsent.list = Participants(R[cn[c].rid].users, cn)]
           s == IterStep(R[cn[c].rid].users, IterNew(R, cn[c].rid, ""), cn1)
       IN IF s.st = "send" THEN Suspend(c, R, D, cn1, "pl_send", s.it)
          ELSE AfterBroadcast(c, R, D, cn1)

\* l.616-620: db.end_room_session inside its try
EndSession(hist, ok) == IF hist = "open" /\ ok THEN "ended" ELSE hist

\* rooms[room_id] of l.592 raises KeyError: the except clause of l.612, then
\* the finally block, which ends the session and finds no room to leave
NoRoom(c, R, D, cn) ==
  Done(c, R, D, [cn EXCEPT ![c].hist = EndSession(@, cn[c].dbok.end)])

\* for u in rooms[room_id].users.values(): if u.user_id != user_id (l.592-594)
StartPs(c, R, D, cn) ==
  IF cn[c].rid \notin DOMAIN R THEN NoRoom(c, R, D, cn)
  ELSE LET s == IterStep(R[cn[c].rid].users, IterNew(R, cn[c].rid, cn[c].uid), cn) IN
       IF s.st = "send" THEN Suspend(c, R, D, cn, "ps_send", s.it)
       ELSE ToRecv(c, R, D, cn)

\* what follows broadcast_system_message: l.556, l.592 or l.648
AfterSys(c, R, D, cn) ==
  IF cn[c].ctx = "present" THEN StartPs(c, R, D, cn) ELSE StartPl(c, R, D, cn)

\* broadcast_system_message up to its first send (l.236-245)
StartSys(c, R, D, cn, excl) ==
  IF cn[c].rid \notin DOMAIN R THEN AfterSys(c, R, D, cn)
  ELSE LET s == IterStep(R[cn[c].rid].users, IterNew(R, cn[c].rid, excl), cn) IN
       IF s.st = "send" THEN Suspend(c, R, D, cn, "sys_send", s.it)
       ELSE AfterSys(c, R, D, cn)

\* mutant of RoomIsEmpty: the entry table is tested, not the live entries
RoomIsEmptyByLen(users) == Len(users) = 0

\* l.634: not rooms[room_id].users
RoomIsEmpty(users) == DictUsed(users) = 0

\* the finally block up to its first await (l.614-648)
BeginCleanup(c, R, D, cn) ==
  LET rid == cn[c].rid
      cn1 == [cn EXCEPT ![c].ctx = "leave", ![c].pw = "", ![c].pub = TRUE,
                        ![c].ljp = "", ![c].ljx = FALSE, ![c].ljm = 0,
                        ![c].nps = 0, ![c].nnv = 0, ![c].psent = {},
                        ![c].bsent = NoSent,
                        ![c].hist = EndSession(@, cn[c].dbok.end)]
  IN IF rid = "" \/ rid \notin DOMAIN R THEN Done(c, R, D, cn1)
     ELSE LET users1 == IF c \in DictKeys(R[rid].users)
                        THEN DictDel(R[rid].users, c) ELSE R[rid].users
          IN IF RoomIsEmpty(users1)
             THEN Suspend(c, RoomDel(R, rid), D, cn1, "cl_del", NoIter)
             ELSE LET R1 == [R EXCEPT ![rid].users = users1] IN
                  IF cn[c].isuser THEN StartSys(c, R1, D, cn1, cn[c].uid)
                  ELSE StartPl(c, R1, D, cn1)

\* an exception leaves the try block (l.610-613) or the finally block
Raise(c, R, D, cn) ==
  IF cn[c].ctx = "leave" THEN Done(c, R, D, cn) ELSE BeginCleanup(c, R, D, cn)

\* l.505-516: db.create_room_session inside its try, for a token holder
CreateSession(tok, ok) == IF tok /\ ok THEN "open" ELSE "none"

\* l.488-519: the User is built and stored under its connection id
Register(c, R, D, cn) ==
  LET rid == cn[c].rid IN
  IF rid \notin DOMAIN R THEN Raise(c, R, D, cn)
  ELSE Suspend(c, [R EXCEPT ![rid].users = DictAdd(@, c)], D,
               [cn EXCEPT ![c].isuser = TRUE, ![c].ctx = "join",
                          ![c].pw = "", ![c].pub = TRUE,
                          ![c].hist = CreateSession(cn[c].tok, cn[c].dbok.create)],
               "joined_send", NoIter)

\* l.481-486: the password check of the explicit-id path
CheckPassword(c, R, D, cn) ==
  LET rid == cn[c].rid IN
  IF rid \notin DOMAIN R THEN Raise(c, R, D, cn)
  ELSE LET cn1 == [cn EXCEPT ![c].pw = "", ![c].pub = TRUE, ![c].wrongpw =
                      R[rid].password # "" /\ R[rid].password # cn[c].pw]
       IN IF PasswordRejects(R[rid].password, cn[c].pw)
          THEN Suspend(c, R, D, cn1, "rej_send", NoIter)
          ELSE Register(c, R, D, cn1)

\* ---------------------------------------------------------------- actions
Init ==
  /\ rooms = << >>
  /\ redis = [hash |-> << >>, public |-> {}]
  /\ conn = [c \in Conns |-> FreshConn]

\* Connections that have not sent their handshake are interchangeable: they
\* are taken in the order of their numbers.
InTurn(c) == \A b \in Conns : b < c => conn[b].pc # "accept"

\* A client may go away at any moment.  Nothing reads that before the next
\* send to its socket or the next receive of its own task, so the model lets
\* the client go at those reads: gone = TRUE says the client of t has left
\* by now.  A socket stays dead once it was seen dead.
Gone(cn, t, gone) == [cn EXCEPT ![t].alive = @ /\ ~gone]

\* l.403-432 and l.451-464: the handshake arrives.  gid is the id that
\* uuid4 generates on the create path.
Handshake(c, uid, lang, req, pw, pub, gid) ==
  /\ conn[c].pc = "accept"
  /\ conn[c].alive
  /\ InTurn(c)
  /\ LET rid == IF req = "" \/ req = CREATE THEN gid ELSE req
         cn1 == [conn EXCEPT ![c].uid = uid, ![c].lang = lang, ![c].rid = rid,
                             ![c].pw = pw, ![c].pub = pub]
     IN IF req = "" \/ req = CREATE
        THEN Suspend(c, RoomPut(rooms, rid, NewRoom(c, pub, pw)), redis, cn1,
                     "c_hset", NoIter)
        ELSE IF rid \notin DOMAIN rooms
        THEN Suspend(c, RoomPut(rooms, rid, NewRoom(c, pub, pw)), redis, cn1,
                     "j_hset", NoIter)
        ELSE CheckPassword(c, rooms, redis, cn1)

\* l.403: receive_text raises because the client left before its handshake
HandshakeFail(c) ==
  /\ conn[c].pc = "accept"
  /\ InTurn(c)
  /\ Raise(c, rooms, redis, Gone(conn, c, TRUE))

RedisHset(D, rid, pub, pw) ==
  [D EXCEPT !.hash = [x \in DOMAIN D.hash \cup {rid} |->
                        IF x = rid THEN [is_public |-> pub, password |-> pw]
                        ELSE D.hash[x]]]
RedisSadd(D, rid) == [D EXCEPT !.public = @ \cup {rid}]
\* mutant of RedisDelete: the hash entry stays
RedisDeleteNothing(D, rid) == D

RedisDelete(D, rid) ==
  [D EXCEPT !.hash = [x \in DOMAIN D.hash \ {rid} |-> D.hash[x]]]
RedisSrem(D, rid) == [D EXCEPT !.public = @ \ {rid}]

\* l.437 / l.469 complete; ok = FALSE: the call raised and l.446 / l.478
\* swallowed it, which also skips the sadd
Hset(c, ok) ==
  /\ conn[c].pc \in {"c_hset", "j_hset"}
  /\ LET D1 == IF ok THEN RedisHset(redis, conn[c].rid, conn[c].pub, conn[c].pw)
               ELSE redis
     IN IF ok /\ conn[c].pub
        THEN Suspend(c, rooms, D1, conn,
                     IF conn[c].pc = "c_hset" THEN "c_sadd" ELSE "j_sadd", NoIter)
        ELSE IF conn[c].pc = "c_hset" THEN Register(c, rooms, D1, conn)
        ELSE CheckPassword(c, rooms, D1, conn)

\* l.445 / l.477 complete
Sadd(c, ok) ==
  /\ conn[c].pc \in {"c_sadd", "j_sadd"}
  /\ LET D1 == IF ok THEN RedisSadd(redis, conn[c].rid) ELSE redis
     IN IF conn[c].pc = "c_sadd" THEN Register(c, rooms, D1, conn)
        ELSE CheckPassword(c, rooms, D1, conn)

\* l.484: the error event is sent
RejSend(c, gone) ==
  /\ conn[c].pc = "rej_send"
  /\ LET cn1 == [Gone(conn, c, gone) EXCEPT ![c].nerr = @ + 1]
     IN IF SendOk(cn1, c) THEN Suspend(c, rooms, redis, cn1, "rej_close", NoIter)
        ELSE Raise(c, rooms, redis, cn1)

\* l.485-486: websocket.close(), return, and the finally block
RejClose(c) ==
  /\ conn[c].pc = "rej_close"
  /\ BeginCleanup(c, rooms, redis,
                  [conn EXCEPT ![c].alive = FALSE, ![c].sclosed = TRUE])

\* mutant of FirstWithUid: the search goes over every room
FirstWithUidAnywhere(users, cn, uid) ==
  LET hit == {k \in Conns : cn[k].isuser /\ cn[k].uid = uid}
  IN IF hit = {} THEN 0 ELSE CHOOSE k \in hit : \A j \in hit : k <= j

\* l.532-535 and l.577-578: the first connection of the dict, in insertion
\* order, whose user_id is uid; 0 when there is none
FirstWithUid(users, cn, uid) ==
  LET hit == {i \in 1..Len(users) : users[i] # Hole /\ cn[users[i]].uid = uid}
  IN IF hit = {} THEN 0
     ELSE users[CHOOSE i \in hit : \A j \in hit : i <= j]

\* mutant of LateJoinApplies: the joiner's own identity is not excluded
LateJoinAppliesAnyone(presenter, uid) == presenter # ""

\* l.529: room_obj.active_presenter and room_obj.active_presenter != user_id
LateJoinApplies(presenter, uid) == presenter # "" /\ presenter # uid

\* l.519-537: room_joined is sent, then the late-join check
JoinedSend(c, gone) ==
  /\ conn[c].pc = "joined_send"
  /\ IF ~SendOk(Gone(conn, c, gone), c)
     THEN Raise(c, rooms, redis, Gone(conn, c, gone))
     ELSE LET room == rooms[conn[c].rid]
              pu == IF LateJoinApplies(room.active_presenter, conn[c].uid)
                    THEN FirstWithUid(room.users, conn, room.active_presenter)
                    ELSE 0
              cn1 == [conn EXCEPT ![c].ljp = room.active_presenter, ![c].ljm = pu,
                                  ![c].ljx = \E k \in DictKeys(room.users) :
                                               conn[k].uid = room.active_presenter]
          IN IF pu # 0 THEN Suspend(c, rooms, redis, cn1, "lj_ps", NoIter)
             ELSE StartSys(c, rooms, redis, cn1, "")

\* l.539: presentation_started is sent to the joiner
LjPs(c, gone) ==
  /\ conn[c].pc = "lj_ps"
  /\ LET cn1 == [Gone(conn, c, gone) EXCEPT ![c].nps = @ + 1]
     IN IF SendOk(cn1, c) THEN Suspend(c, rooms, redis, cn1, "lj_nv", NoIter)
        ELSE Raise(c, rooms, redis, cn1)

\* l.547-555: new_viewer is sent to the presenter's socket, outside any try
LjNv(c, gone) ==
  /\ conn[c].pc = "lj_nv"
  /\ LET cn1 == [Gone(conn, conn[c].ljm, gone) EXCEPT ![c].nnv = @ + 1]
     IN IF SendOk(cn1, conn[c].ljm) THEN StartSys(c, rooms, redis, cn1, "")
        ELSE Raise(c, rooms, redis, cn1)

\* l.245-250 and the next turn of the loop of l.241; a failed send is
\* swallowed, a dict that changed size makes next() raise RuntimeError
SysSend(c, gone) ==
  /\ conn[c].pc = "sys_send"
  /\ LET cn1 == [Gone(conn, conn[c].it.tgt, gone) EXCEPT
                   ![c].bsent.sys = @ \cup {conn[c].it.tgt}]
         s == IterStep(IterDict(rooms, conn[c].rid, conn[c].it.obj), conn[c].it, cn1)
     IN CASE s.st = "send" -> Suspend(c, rooms, redis, cn1, "sys_send", s.it)
          [] s.st = "stop" -> AfterSys(c, rooms, redis, cn1)
          [] OTHER -> Raise(c, rooms, redis, cn1)

\* l.229-234 and the next turn of the loop of l.227
PlSend(c, gone) ==
  /\ conn[c].pc = "pl_send"
  /\ LET cn1 == [Gone(conn, conn[c].it.tgt, gone) EXCEPT
                   ![c].bsent.pl = @ \cup {conn[c].it.tgt}]
         s == IterStep(IterDict(rooms, conn[c].rid, conn[c].it.obj), conn[c].it, cn1)
     IN CASE s.st = "send" -> Suspend(c, rooms, redis, cn1, "pl_send", s.it)
          [] s.st = "stop" -> AfterBroadcast(c, rooms, redis, cn1)
          [] OTHER -> Raise(c, rooms, redis, cn1)

\* l.560: receive_text raises WebSocketDisconnect
RecvDisconnect(c) ==
  /\ conn[c].pc = "recv"
  /\ Raise(c, rooms, redis, Gone(conn, c, TRUE))

\* l.589-591: the start_presentation branch up to its first send
StartPresentation(c, cn) ==
  IF cn[c].rid \notin DOMAIN rooms THEN Raise(c, rooms, redis, cn)
  ELSE StartSys(c, [rooms EXCEPT ![cn[c].rid].active_presenter = cn[c].uid],
                redis, [cn EXCEPT ![c].ctx = "present"], "")

\* l.587-591: start_presentation is received
RecvStart(c) ==
  /\ conn[c].pc = "recv"
  /\ conn[c].alive
  /\ StartPresentation(c, conn)

\* l.594-598 and the next turn of the loop of l.592; the send is in no try
PsSend(c, gone) ==
  /\ conn[c].pc = "ps_send"
  /\ LET cn1 == [Gone(conn, conn[c].it.tgt, gone) EXCEPT
                   ![c].psent = @ \cup {conn[c].it.tgt}]
         s == IterStep(IterDict(rooms, conn[c].rid, conn[c].it.obj), conn[c].it, cn1)
     IN IF ~SendOk(cn1, conn[c].it.tgt) THEN Raise(c, rooms, redis, cn1)
        ELSE CASE s.st = "send" -> Suspend(c, rooms, redis, cn1, "ps_send", s.it)
               [] s.st = "stop" -> ToRecv(c, rooms, redis, cn1)
               [] OTHER -> Raise(c, rooms, redis, cn1)

\* l.602-605: the stop_presentation branch up to its first send
StopPresentation(c, cn) ==
  IF cn[c].rid \notin DOMAIN rooms THEN Raise(c, rooms, redis, cn)
  ELSE LET R1 == [rooms EXCEPT ![cn[c].rid].active_presenter = ""]
           s == IterStep(R1[cn[c].rid].users, IterNew(R1, cn[c].rid, ""), cn)
       IN IF s.st = "send" THEN Suspend(c, R1, redis, cn, "st_send", s.it)
          ELSE ToRecv(c, R1, redis, cn)

\* l.600-605: stop_presentation is received
RecvStop(c) ==
  /\ conn[c].pc = "recv"
  /\ conn[c].alive
  /\ StopPresentation(c, conn)

\* l.605-608 and the next turn of the loop of l.604; the send is in no try
StSend(c, gone) ==
  /\ conn[c].pc = "st_send"
  /\ LET cn1 == [Gone(conn, conn[c].it.tgt, gone) EXCEPT
                   ![c].psent = @ \cup {conn[c].it.tgt}]
         s == IterStep(IterDict(rooms, conn[c].rid, conn[c].it.obj), conn[c].it, cn1)
     IN IF ~SendOk(cn1, conn[c].it.tgt) THEN Raise(c, rooms, redis, cn1)
        ELSE CASE s.st = "send" -> Suspend(c, rooms, redis, cn1, "st_send", s.it)
               [] s.st = "stop" -> ToRecv(c, rooms, redis, cn1)
               [] OTHER -> Raise(c, rooms, redis, cn1)

\* ------------------------------------------------------------ other events
SignalTypes == {"signal_offer", "signal_answer", "signal_ice"}

\* mutant of Branch: the last branch of the chain is taken as its else
BranchLastIsElse(type) ==
  CASE type = "speech" -> "speech"
    [] type \in SignalTypes -> "signal"
    [] type = "start_presentation" -> "start"
    [] OTHER -> "stop"

\* l.565-600: the if / elif chain on message_type; it has no else
Branch(type) ==
  CASE type = "speech" -> "speech"
    [] type \in SignalTypes -> "signal"
    [] type = "start_presentation" -> "start"
    [] type = "stop_presentation" -> "stop"
    [] OTHER -> "none"

\* the events of another type received by the tasks 1..k
RECURSIVE OtherCount(_, _)
OtherCount(cn, k) == IF k = 0 THEN 0 ELSE cn[k].nother + OtherCount(cn, k - 1)

\* l.560-608: an event is received whose type is none of the six; the
\* chain decides what runs
RecvOther(c, type) ==
  /\ conn[c].pc = "recv"
  /\ conn[c].alive
  /\ OtherCount(conn, NumConns) < MaxOther
  /\ LET cn1 == [conn EXCEPT ![c].nother = @ + 1]
     IN CASE Branch(type) = "start" -> StartPresentation(c, cn1)
          [] Branch(type) = "stop" -> StopPresentation(c, cn1)
          [] OTHER -> ToRecv(c, rooms, redis, cn1)

\* ---------------------------------------------------------------- signaling
\* mutant of SignalTarget: without a match the first member is taken
SignalTargetOrFirst(R, cn, rid, target) ==
  IF rid \notin DOMAIN R \/ DictKeys(R[rid].users) = {} THEN 0
  ELSE IF FirstWithUid(R[rid].users, cn, target) # 0
  THEN FirstWithUid(R[rid].users, cn, target)
  ELSE R[rid].users[DictScan(R[rid].users, 0)]

\* l.574-578: if target_user_id and room_id in rooms, the first member of
\* rooms[room_id] whose user_id is the target; 0 when nothing is to be sent
SignalTarget(R, cn, rid, target) ==
  IF target # "" /\ rid \in DOMAIN R THEN FirstWithUid(R[rid].users, cn, target)
  ELSE 0

\* the signaling events received by the tasks 1..k
RECURSIVE SignalCount(_, _)
SignalCount(cn, k) == IF k = 0 THEN 0 ELSE cn[k].sig.n + SignalCount(cn, k - 1)

\* l.572-579: signal_offer, signal_answer or signal_ice is received
RecvSignal(c, target) ==
  /\ conn[c].pc = "recv"
  /\ conn[c].alive
  /\ SignalCount(conn, NumConns) < MaxSignal
  /\ LET to == SignalTarget(rooms, conn, conn[c].rid, target)
         cn1 == [conn EXCEPT ![c].sig = [target |-> target, to |-> to,
                                         sent |-> <<>>, n |-> @.n + 1]]
     IN IF to = 0 THEN ToRecv(c, rooms, redis, cn1)
        ELSE Suspend(c, rooms, redis, cn1, "sig_send", NoIter)

\* l.579-585: data["sender"] = user_id, the send inside its try, and break
SigSend(c, gone) ==
  /\ conn[c].pc = "sig_send"
  /\ LET to == conn[c].sig.to
         cn1 == Gone(conn, to, gone)
         ev == [to |-> to, sender |-> conn[c].uid, ok |-> SendOk(cn1, to)]
     IN ToRecv(c, rooms, redis, [cn1 EXCEPT ![c].sig.sent = Append(@, ev)])

\* l.639 completes; ok = FALSE: it raised, l.641 swallowed it, srem is skipped
ClDel(c, ok) ==
  /\ conn[c].pc = "cl_del"
  /\ IF ok THEN Suspend(c, rooms, RedisDelete(redis, conn[c].rid), conn,
                        "cl_srem", NoIter)
     ELSE Done(c, rooms, redis, conn)

\* l.640 completes
ClSrem(c, ok) ==
  /\ conn[c].pc = "cl_srem"
  /\ Done(c, rooms, IF ok THEN RedisSrem(redis, conn[c].rid) ELSE redis, conn)

\* ------------------------------------------------------------------ speech
\* l.259-266: the table from locale tags to translator codes
lang_map ==
  [t \in {<<"pt", "BR">>, <<"pt", "PT">>, <<"en", "US">>, <<"en", "GB">>,
          <<"es", "ES">>, <<"es", "MX">>, <<"fr", "FR">>, <<"de", "DE">>,
          <<"it", "IT">>, <<"ja", "JP">>, <<"zh", "CN">>, <<"ko", "KR">>}
     |-> IF t = <<"zh", "CN">> THEN t ELSE <<t[1]>>]

\* l.268, l.273: lang_map.get(tag, tag.split('-')[0])
Canon(tag) == IF tag \in DOMAIN lang_map THEN lang_map[tag] ELSE <<tag[1]>>

\* The User objects of a group, as broadcast_translation holds them: a User
\* keeps its user_id and language for as long as a list refers to it.
UserRef(cn, k) == [conn |-> k, uid |-> cn[k].uid, lang |-> cn[k].lang]

\* l.271-276: users_by_language, built from the dict entries from position i
RECURSIVE GroupUsers(_, _, _, _)
GroupUsers(users, cn, i, acc) ==
  IF i > Len(users) THEN acc
  ELSE IF users[i] = Hole THEN GroupUsers(users, cn, i + 1, acc)
  ELSE LET u == UserRef(cn, users[i])
           code == Canon(u.lang)
           at == {g \in 1..Len(acc) : acc[g].lang = code}
       IN IF at = {}
          THEN GroupUsers(users, cn, i + 1,
                          Append(acc, [lang |-> code, users |-> <<u>>]))
          ELSE GroupUsers(users, cn, i + 1,
                          [acc EXCEPT ![CHOOSE g \in at : TRUE].users = Append(@, u)])

\* mutant of Snapshot: the first entry of the dict is left out
SnapshotTail(users, cn) == GroupUsers(users, cn, 2, <<>>)

\* l.270-276: the groups of the members the room has now
Snapshot(users, cn) == GroupUsers(users, cn, 1, <<>>)

\* what the client said, in the speaker's language
OriginalText(src) == [body |-> "hello", in |-> src]

\* mutant of NeedsTranslation: every group is translated
NeedsTranslationAlways(src, tgt) == TRUE

\* l.285: source_lang_clean == target_lang_clean skips the oracle
NeedsTranslation(src, tgt) == src # tgt

\* translator_service.py l.28-36: the oracle's text in the target language,
\* or the text itself when the oracle raised
Translate(text, tgt, ok) == IF ok THEN [body |-> text.body, in |-> tgt] ELSE text

NoAudio == <<>>
\* l.301-303: the url of the mp3 synthesized from text with the voice of lang
AudioUrl(text, lang) == <<text, lang>>

\* l.298-314: language_data[target]; ok = FALSE: generate_audio (or the
\* move of its file) raised and the except clause of l.310 ran
LanguageData(original, translated, lang, ok) ==
  IF ok THEN [text |-> translated, audio |-> AudioUrl(translated, lang)]
  ELSE [text |-> original, audio |-> NoAudio]

\* mutant of IsSelf: the connection, not the identity, is compared
IsSelfByConn(u, c, cn) == u.conn = c

\* l.323: user.user_id == sender.user_id
IsSelf(u, c, cn) == u.uid = cn[c].uid

\* l.324-335: the message event for user u of a group with data d
Message(u, c, cn, d) ==
  [to |-> u.conn, is_self |-> IsSelf(u, c, cn), target_lang |-> u.lang,
   translated_text |-> d.text, audio_url |-> d.audio]

\* l.282-298: the loop body for group gi up to its first await
StartGroup(c, R, D, cn, gi) ==
  LET src == Canon(cn[c].lang)
      g == cn[c].sp.groups[gi]
  IN IF NeedsTranslation(src, g.lang)
     THEN Suspend(c, R, D, [cn EXCEPT ![c].sp.gi = gi], "sp_tr", NoIter)
     ELSE Suspend(c, R, D, [cn EXCEPT ![c].sp.gi = gi,
                                      ![c].sp.text = OriginalText(src)],
                  "sp_tts", NoIter)

\* the speech events dispatched by the tasks 1..k
RECURSIVE SpeechCount(_, _)
SpeechCount(cn, k) == IF k = 0 THEN 0 ELSE cn[k].sp.n + SpeechCount(cn, k - 1)

\* l.565-570 and l.252-276: a speech event with a non-blank text is received
RecvSpeech(c) ==
  /\ conn[c].pc = "recv"
  /\ conn[c].alive
  /\ SpeechCount(conn, NumConns) < MaxSpeech
  /\ IF conn[c].rid \notin DOMAIN rooms THEN ToRecv(c, rooms, redis, conn)
     ELSE StartGroup(c, rooms, redis,
                     [conn EXCEPT ![c].sp =
                        [NoSpeech EXCEPT !.n = conn[c].sp.n + 1,
                           !.snap = {UserRef(conn, k) :
                                       k \in DictKeys(rooms[conn[c].rid].users)},
                           !.groups = Snapshot(rooms[conn[c].rid].users, conn)]],
                     1)

\* l.290-295: the oracle answers
SpTranslate(c, ok) ==
  /\ conn[c].pc = "sp_tr"
  /\ LET sp == conn[c].sp
         g == sp.groups[sp.gi]
         src == Canon(conn[c].lang)
     IN Suspend(c, rooms, redis,
                [conn EXCEPT ![c].sp.text = Translate(OriginalText(src), g.lang, ok),
                             ![c].sp.calls = Append(@, [op |-> "translate", lang |-> g.lang,
                                                        ok |-> ok])],
                "sp_tts", NoIter)

\* l.298-316: the synthesizer answers; then the next group, or the send loop
SpTts(c, ok) ==
  /\ conn[c].pc = "sp_tts"
  /\ LET sp == conn[c].sp
         g == sp.groups[sp.gi]
         src == Canon(conn[c].lang)
         cn1 == [conn EXCEPT
                   ![c].sp.data = Append(@, LanguageData(OriginalText(src), sp.text,
                                                         g.lang, ok)),
                   ![c].sp.calls = Append(@, [op |-> "tts", lang |-> g.lang, ok |-> ok]),
                   ![c].sp.text = NoText]
     IN IF sp.gi < Len(sp.groups) THEN StartGroup(c, rooms, redis, cn1, sp.gi + 1)
        ELSE Suspend(c, rooms, redis, [cn1 EXCEPT ![c].sp.gi = 1, ![c].sp.ui = 1],
                     "sp_send", NoIter)

\* mutant of Swallowed: a failed send leaves the loop
SwallowedNever(ok) == ok

\* l.321, l.338: the try of the send loop lets the loop go on after a send
\* that raised
Swallowed(ok) == TRUE

\* l.321-338: one message event is sent
SpSend(c, gone) ==
  /\ conn[c].pc = "sp_send"
  /\ LET sp == conn[c].sp
         g == sp.groups[sp.gi]
         u == g.users[sp.ui]
         cn1 == Gone(conn, u.conn, gone)
         m == [msg |-> Message(u, c, conn, sp.data[sp.gi]), ok |-> SendOk(cn1, u.conn)]
         cn2 == [cn1 EXCEPT ![c].sp.sent = Append(@, m)]
     IN IF ~Swallowed(m.ok) THEN Raise(c, rooms, redis, cn2)
        ELSE IF sp.ui < Len(g.users)
        THEN Suspend(c, rooms, redis, [cn2 EXCEPT ![c].sp.ui = sp.ui + 1],
                     "sp_send", NoIter)
        ELSE IF sp.gi < Len(sp.groups)
        THEN Suspend(c, rooms, redis,
                     [cn2 EXCEPT ![c].sp.gi = sp.gi + 1, ![c].sp.ui = 1],
                     "sp_send", NoIter)
        ELSE ToRecv(c, rooms, redis, [cn2 EXCEPT ![c].sp.done = TRUE])

\* ------------------------------------------------------------- list_rooms
\* l.340-373, GET /api/rooms.  ok: the directory is configured and its
\* reads succeed; then the answer is built from the directory alone, with
\* the member count taken from the registry, and the registry is listed
\* only when the directory cannot be read.
list_rooms(R, D, ok) ==
  IF ok
  THEN {[id |-> rid,
         users_count |-> IF rid \in DOMAIN R
                         THEN Cardinality(DictKeys(R[rid].users)) ELSE 0,
         has_password |-> D.hash[rid].password # ""] :
          rid \in {x \in D.public : x \in DOMAIN D.hash}}
  ELSE {[id |-> rid,
         users_count |-> Cardinality(DictKeys(R[rid].users)),
         has_password |-> R[rid].password # ""] :
          rid \in {x \in DOMAIN R : R[x].is_public}}

\* ------------------------------------------------------- specifications
\* ids uuid4 may generate: the code relies on them being unused
FreshIds == RoomIds \ DOMAIN rooms
RedisOutcomes == BOOLEAN
LifeTags == {<<"en", "US">>}

Step(c) ==
  \/ HandshakeFail(c)
  \/ \E ok \in RedisOutcomes : Hset(c, ok)
  \/ \E ok \in RedisOutcomes : Sadd(c, ok)
  \/ \E gone \in BOOLEAN : RejSend(c, gone)
  \/ RejClose(c)
  \/ \E gone \in BOOLEAN : JoinedSend(c, gone)
  \/ \E gone \in BOOLEAN : LjPs(c, gone)
  \/ \E gone \in BOOLEAN : LjNv(c, gone)
  \/ \E gone \in BOOLEAN : SysSend(c, gone)
  \/ \E gone \in BOOLEAN : PlSend(c, gone)
  \/ RecvDisconnect(c)
  \/ RecvStart(c)
  \/ \E gone \in BOOLEAN : PsSend(c, gone)
  \/ RecvStop(c)
  \/ \E gone \in BOOLEAN : StSend(c, gone)
  \/ \E ok \in RedisOutcomes : ClDel(c, ok)
  \/ \E ok \in RedisOutcomes : ClSrem(c, ok)

Next ==
  \E c \in 1..MaxClients :
    \/ Step(c)
    \/ \E uid \in UserIds, lang \in LifeTags, req \in RoomIds \cup {CREATE},
          pw \in Passwords, pub \in BOOLEAN :
         \E gid \in (IF req = CREATE THEN FreshIds ELSE {req}) :
           Handshake(c, uid, lang, req, pw, pub, gid)

Spec == Init /\ [][Next]_vars

\* The speech specification.  A speech event changes neither the registry
\* nor the directory, so the life-cycle specification leaves it out; this
\* one starts from a room "R1" that the connections 1..k have joined and
\* lets any of them speak.  While a dispatch is under way the other members
\* leave and the other connections join, one client at a time.  That a
\* client has gone is seen by the sends of the dispatch and by the client's
\* own task; the sends of the join and leave broadcasts find their sockets
\* as those left them.
SpeechTags == {<<"en", "US">>, <<"en", "GB">>, <<"fr", "FR">>, <<"zh", "TW">>}
SpeechRoom == "R1"

\* the members alternate between the identities; the first speaks en-US
MemberUid(i) == IF i % 2 = 1 THEN "u1" ELSE "u2"
MemberTags(k) == {lang \in [1..k -> SpeechTags] : lang[1] = <<"en", "US">>}

Member(uid, lang) ==
  [FreshConn EXCEPT !.pc = "recv", !.uid = uid, !.lang = lang, !.rid = SpeechRoom,
                    !.isuser = TRUE]

InitSpeech ==
  \E k \in (NumConns - 1)..NumConns :
    \E lang \in MemberTags(k) :
      /\ rooms = RoomPut(<< >>, SpeechRoom,
                         [NewRoom(1, TRUE, "") EXCEPT !.users = [i \in 1..k |-> i]])
      /\ redis = RedisSadd(RedisHset([hash |-> << >>, public |-> {}],
                                     SpeechRoom, TRUE, ""), SpeechRoom)
      /\ conn = [c \in Conns |-> IF c <= k THEN Member(MemberUid(c), lang[c])
                                  ELSE FreshConn]

InDispatch == \E d \in Conns : conn[d].pc \in {"sp_tr", "sp_tts", "sp_send"}
Quiet ==
  \A d \in Conns :
    conn[d].pc \in {"accept", "recv", "closed", "sp_tr", "sp_tts", "sp_send"}

NextSpeech ==
  \E c \in Conns :
    \/ RecvSpeech(c)
    \/ \E ok \in BOOLEAN : SpTranslate(c, ok)
    \/ \E ok \in BOOLEAN : SpTts(c, ok)
    \/ \E gone \in BOOLEAN : SpSend(c, gone)
    \/ /\ InDispatch /\ Quiet
       /\ \E uid \in UserIds, lang \in LifeTags :
            Handshake(c, uid, lang, SpeechRoom, "", TRUE, SpeechRoom)
    \/ JoinedSend(c, FALSE)
    \/ SysSend(c, FALSE)
    \/ PlSend(c, FALSE)
    \/ InDispatch /\ Quiet /\ RecvDisconnect(c)

SpecSpeech == InitSpeech /\ [][NextSpeech]_vars

\* The signaling specification.  A signaling event changes neither the
\* registry nor the directory; this specification starts from the rooms
\* that the connections have joined, each under one of the identities and
\* in the order of their numbers, and lets any member signal to any
\* identity, or to none, while members leave.  That a client has gone is
\* seen by the send of the signal and by the client's own task; the
\* directory answers.
SignalTargets == UserIds \cup {""}

SignalMember(uid, rid) ==
  [FreshConn EXCEPT !.pc = "recv", !.uid = uid, !.lang = <<"en", "US">>,
                    !.rid = rid, !.isuser = TRUE]

\* the members of a room, in the order they joined
MembersOf(rm, r) == SelectSeq([i \in 1..NumConns |-> i], LAMBDA i : rm[i] = r)

InitSignal ==
  \E rm \in [Conns -> RoomIds], id \in [Conns -> UserIds] :
    /\ rm[1] = "R1"
    /\ rooms = [r \in {rm[c] : c \in Conns} |->
                  [NewRoom(MembersOf(rm, r)[1], FALSE, "") EXCEPT
                     !.users = MembersOf(rm, r)]]
    /\ redis = [hash |-> [r \in {rm[c] : c \in Conns} |->
                            [is_public |-> FALSE, password |-> ""]],
                public |-> {}]
    /\ conn = [c \in Conns |-> SignalMember(id[c], rm[c])]

NextSignal ==
  \E c \in Conns :
    \/ \E target \in SignalTargets : RecvSignal(c, target)
    \/ \E gone \in BOOLEAN : SigSend(c, gone)
    \/ RecvDisconnect(c)
    \/ SysSend(c, FALSE)
    \/ PlSend(c, FALSE)
    \/ ClDel(c, TRUE)
    \/ ClSrem(c, TRUE)

SpecSignal == InitSignal /\ [][NextSignal]_vars

\* The collision specification.  str(uuid4())[:6] has 24 bits and an
\* explicit id may be any string, so the id the create path generates may
\* be the id of a room of the registry.  This specification is the
\* life-cycle one without passwords and presentations, with the generated
\* id drawn from all ids.  A handshake arrives for an id only while no
\* task of that id holds a reference to the Room object, that is, between
\* room_obj of l.502 and the main loop or inside a loop over the members
\* (a broadcast, l.592, l.604): the model reaches a Room object through the
\* registry only.
GeneratedIds == RoomIds

Walking(rid) ==
  \E d \in Conns : /\ conn[d].rid = rid
                    /\ conn[d].pc \in {"joined_send", "sys_send", "pl_send",
                                       "ps_send", "st_send"}

NextCollide ==
  \E c \in 1..MaxClients :
    \/ HandshakeFail(c)
    \/ \E ok \in RedisOutcomes : Hset(c, ok)
    \/ \E ok \in RedisOutcomes : Sadd(c, ok)
    \/ \E gone \in BOOLEAN : JoinedSend(c, gone)
    \/ \E gone \in BOOLEAN : SysSend(c, gone)
    \/ \E gone \in BOOLEAN : PlSend(c, gone)
    \/ RecvDisconnect(c)
    \/ \E ok \in RedisOutcomes : ClDel(c, ok)
    \/ \E ok \in RedisOutcomes : ClSrem(c, ok)
    \/ \E uid \in UserIds, lang \in LifeTags, req \in RoomIds \cup {CREATE},
          pub \in BOOLEAN :
         \E gid \in (IF req = CREATE THEN GeneratedIds ELSE {req}) :
           /\ ~Walking(gid)
           /\ Handshake(c, uid, lang, req, "", pub, gid)

SpecCollide == Init /\ [][NextCollide]_vars

\* The closing specification.  The connections of the life-cycle
\* specification come without a token, so they write no history.  This one
\* starts from a room "R1" that the connections 1..k have joined, each a
\* guest or a token holder whose session row is open and whose
\* end_room_session will succeed or fail; the members leave, and the other
\* connections join with a token while they do.
CloseRoom == "R1"
Holders == {"guest", "closes", "fails"}

CloseMember(uid, h) ==
  [FreshConn EXCEPT !.pc = "recv", !.uid = uid, !.lang = <<"en", "US">>,
                    !.rid = CloseRoom, !.isuser = TRUE,
                    !.tok = (h # "guest"),
                    !.dbok = [create |-> TRUE, end |-> (h # "fails")],
                    !.hist = IF h = "guest" THEN "none" ELSE "open"]

CloseJoiner(cr) ==
  [FreshConn EXCEPT !.tok = TRUE, !.dbok = [create |-> cr, end |-> TRUE]]

InitClose ==
  \E k \in (NumConns - 1)..NumConns :
    \E id \in [1..k -> UserIds], h \in [1..k -> Holders], cr \in BOOLEAN :
      /\ rooms = RoomPut(<< >>, CloseRoom,
                         [NewRoom(1, FALSE, "") EXCEPT !.users = [i \in 1..k |-> i]])
      /\ redis = RedisHset([hash |-> << >>, public |-> {}], CloseRoom, FALSE, "")
      /\ conn = [c \in Conns |-> IF c <= k THEN CloseMember(id[c], h[c])
                                  ELSE CloseJoiner(cr)]

NextClose ==
  \E c \in Conns :
    \/ RecvDisconnect(c)
    \/ \E gone \in BOOLEAN : SysSend(c, gone)
    \/ \E gone \in BOOLEAN : PlSend(c, gone)
    \/ ClDel(c, TRUE)
    \/ ClSrem(c, TRUE)
    \/ \E uid \in UserIds, lang \in LifeTags :
         Handshake(c, uid, lang, CloseRoom, "", FALSE, CloseRoom)
    \/ \E ok \in RedisOutcomes : Hset(c, ok)
    \/ JoinedSend(c, FALSE)

SpecClose == InitClose /\ [][NextClose]_vars

\* The event specification.  It starts from a room "R1" that the
\* connections 1..k have joined, with or without a presenter among them,
\* and lets the members send presentation events and events of other
\* types, and leave.
OtherTypes == {"ping", "typing"}
EventRoom == "R1"

EventMember(uid) ==
  [FreshConn EXCEPT !.pc = "recv", !.uid = uid, !.lang = <<"en", "US">>,
                    !.rid = EventRoom, !.isuser = TRUE]

InitEvent ==
  LET k == NumConns - 1 IN
    \E id \in [1..k -> UserIds] :
      \E presenter \in {""} \cup {id[i] : i \in 1..k} :
        /\ rooms = RoomPut(<< >>, EventRoom,
                           [NewRoom(1, FALSE, "") EXCEPT
                              !.users = [i \in 1..k |-> i],
                              !.active_presenter = presenter])
        /\ redis = RedisHset([hash |-> << >>, public |-> {}], EventRoom, FALSE, "")
        /\ conn = [c \in Conns |-> IF c <= k THEN EventMember(id[c])
                                    ELSE ClosedConn]

NextEvent ==
  \E c \in Conns :
    \/ \E type \in OtherTypes : RecvOther(c, type)
    \/ RecvStart(c)
    \/ \E gone \in BOOLEAN : PsSend(c, gone)
    \/ RecvStop(c)
    \/ \E gone \in BOOLEAN : StSend(c, gone)
    \/ RecvDisconnect(c)
    \/ SysSend(c, FALSE)
    \/ PlSend(c, FALSE)
    \/ ClDel(c, TRUE)
    \/ ClSrem(c, TRUE)

SpecEvent == InitEvent /\ [][NextEvent]_vars

\* The directory specification: the life-cycle specification with a
\* directory that never fails, without passwords and presentations.
NextDirectory ==
  \E c \in 1..MaxClients :
    \/ HandshakeFail(c)
    \/ Hset(c, TRUE)
    \/ Sadd(c, TRUE)
    \/ \E gone \in BOOLEAN : JoinedSend(c, gone)
    \/ \E gone \in BOOLEAN : SysSend(c, gone)
    \/ \E gone \in BOOLEAN : PlSend(c, gone)
    \/ RecvDisconnect(c)
    \/ ClDel(c, TRUE)
    \/ ClSrem(c, TRUE)
    \/ \E uid \in UserIds, lang \in LifeTags, req \in RoomIds \cup {CREATE},
          pub \in BOOLEAN :
         \E gid \in (IF req = CREATE THEN FreshIds ELSE {req}) :
           Handshake(c, uid, lang, req, "", pub, gid)

SpecDirectory == Init /\ [][NextDirectory]_vars

\* The replacement specification.  It is the collision specification with
\* the presentation events: the create path may generate the id of a room
\* of the registry, and the members of either Room object, the replaced one
\* and the one now registered under the id, send start_presentation and
\* stop_presentation.
NextReplace ==
  \/ NextCollide
  \/ \E c \in 1..MaxClients :
       \/ RecvStart(c)
       \/ \E gone \in BOOLEAN : PsSend(c, gone)
       \/ RecvStop(c)
       \/ \E gone \in BOOLEAN : StSend(c, gone)

SpecReplace == Init /\ [][NextReplace]_vars

\* ================================================================ claims
\* a step of connection c's own task
StepOf(c) == conn'[c].pc # conn[c].pc \/ conn'[c].it # conn[c].it

InWindow(c, rid) ==
  conn[c].rid = rid /\ conn[c].pc \in {"c_hset", "c_sadd", "j_hset", "j_sadd"}

\* C1, first half: every room of the registry has a member, or the
\* connection that created it is still between creating it and registering
\* itself as its first member.
C1_MemberOrWindow ==
  \A r \in DOMAIN rooms :
    DictKeys(rooms[r].users) # {} \/ InWindow(rooms[r].by, r)

\* C1, second half: a step that takes the last member out of a room takes
\* the room out of the registry.
C1_LastLeaveDeletes ==
  \A r \in DOMAIN rooms :
    (DictKeys(rooms[r].users) # {} /\ r \in DOMAIN rooms')
      => DictKeys(rooms'[r].users) # {}

\* C1: in every reachable state each room in the registry has at least one
\* member or is in the window between its creation and its creator's
\* registration, and after any leave that removes a room's last member the
\* room is absent from the registry.
C1_RoomsHaveMembers == []C1_MemberOrWindow /\ [][C1_LastLeaveDeletes]_vars

\* C1 witness: a member has just left as the last one, its room is gone,
\* while another room is in its creation window.
C1_Witness ==
  \E c, d \in Conns :
    /\ conn[c].pc = "cl_del" /\ conn[c].isuser /\ conn[c].rid \notin DOMAIN rooms
    /\ conn[d].rid \in DOMAIN rooms /\ InWindow(d, conn[d].rid)
    /\ DictKeys(rooms[conn[d].rid].users) = {}

\* C2: a handshake that finds a room with a non-empty stored password and
\* supplies another password never becomes a member of any room, never is
\* Active, and is sent exactly one error event, before its socket is closed;
\* no other connection is sent an error event.
C2_WrongPasswordRejected ==
  \A c \in Conns :
    /\ conn[c].wrongpw =>
         /\ ~conn[c].isuser
         /\ \A r \in DOMAIN rooms : c \notin DictKeys(rooms[r].users)
         /\ conn[c].pc \in {"rej_send", "rej_close", "pl_send", "cl_del", "cl_srem"}
         /\ conn[c].ctx \in {"", "leave"}
         /\ conn[c].nerr = (IF conn[c].pc = "rej_send" THEN 0 ELSE 1)
    /\ conn[c].sclosed => conn[c].wrongpw /\ conn[c].nerr = 1
    /\ ~conn[c].wrongpw => conn[c].nerr = 0

\* C2 witness: a rejected connection whose error event was sent and whose
\* socket the server closed.
C2_Witness ==
  \E c \in Conns : conn[c].wrongpw /\ conn[c].sclosed /\ conn[c].nerr = 1

\* C3 (as claimed): no step of a connection rejected for a wrong password
\* changes the registry, a member map, a presenter or the directory cache.
C3_RejectedJoinMutatesNothing ==
  [][\A c \in Conns : (conn[c].wrongpw /\ StepOf(c)) => UNCHANGED <<rooms, redis>>]_vars

\* ------------------------------------------------------ speech dispatch
\* the tasks whose last dispatch has returned
Finished == {c \in Conns : conn[c].sp.done}
Source(c) == Canon(conn[c].lang)
Codes == {Canon(t) : t \in Tags}
TargetCodes(c) == {Canon(u.lang) : u \in conn[c].sp.snap}
NCalls(c, op, code) ==
  Cardinality({i \in 1..Len(conn[c].sp.calls) :
                 conn[c].sp.calls[i].op = op /\ conn[c].sp.calls[i].lang = code})
\* the message events of c's dispatch that were sent to connection k
SentTo(c, k) ==
  {i \in 1..Len(conn[c].sp.sent) : conn[c].sp.sent[i].msg.to = k}
\* the members of the snapshot whose canonical code is code
GroupOf(c, code) == {u \in conn[c].sp.snap : Canon(u.lang) = code}
\* the text of a group whose oracle call succeeded or was not needed
OwnTranslation(c, code) ==
  IF code = Source(c) THEN OriginalText(Source(c))
  ELSE [body |-> OriginalText(Source(c)).body, in |-> code]
OracleFailed(c, code) ==
  \E i \in 1..Len(conn[c].sp.calls) :
    conn[c].sp.calls[i] = [op |-> "translate", lang |-> code, ok |-> FALSE]
SynthFailed(c, code) ==
  \E i \in 1..Len(conn[c].sp.calls) :
    conn[c].sp.calls[i] = [op |-> "tts", lang |-> code, ok |-> FALSE]

\* C4 (as claimed): for one speech event the oracle and the synthesizer are
\* each called exactly once for every distinct canonical target code other
\* than the sender's, and not at all for the sender's own code.
C4_Original ==
  \A c \in Finished : \A code \in Codes :
    LET n == IF code \in TargetCodes(c) /\ code # Source(c) THEN 1 ELSE 0
    IN NCalls(c, "translate", code) = n /\ NCalls(c, "tts", code) = n

\* C4 (amended): for one speech event the oracle is called exactly once for
\* every distinct canonical target code other than the sender's and not at
\* all for the sender's code; the synthesizer is called exactly once for
\* every distinct canonical target code, the sender's included.
C4_OncePerGroup ==
  \A c \in Finished : \A code \in Codes :
    /\ NCalls(c, "translate", code) =
         (IF code \in TargetCodes(c) /\ code # Source(c) THEN 1 ELSE 0)
    /\ NCalls(c, "tts", code) = (IF code \in TargetCodes(c) THEN 1 ELSE 0)

\* C4 witness: a finished dispatch to two members that share a code other
\* than the sender's.
C4_Witness ==
  \E c \in Finished : \E u, v \in conn[c].sp.snap :
    /\ u.conn # v.conn
    /\ Canon(u.lang) = Canon(v.lang)
    /\ Canon(u.lang) # Source(c)

\* C5: when a dispatch has returned, every member of the snapshot has been
\* sent exactly one message event; its is_self is true iff the member's
\* identity is the sender's, its target_lang is the member's own tag, and
\* its translated_text and audio_url are those of the member's group.
C5_OneMessageEach ==
  \A c \in Finished : \A u \in conn[c].sp.snap :
    /\ Cardinality(SentTo(c, u.conn)) = 1
    /\ \A i \in SentTo(c, u.conn) :
         LET m == conn[c].sp.sent[i].msg IN
         /\ m.is_self = (u.uid = conn[c].uid)
         /\ m.target_lang = u.lang
         /\ \E g \in 1..Len(conn[c].sp.groups) :
              /\ conn[c].sp.groups[g].lang = Canon(u.lang)
              /\ m.translated_text = conn[c].sp.data[g].text
              /\ m.audio_url = conn[c].sp.data[g].audio

\* C5 witness: a finished dispatch whose snapshot holds another connection
\* of the sender's identity, with another tag of the sender's code, and a
\* member of another identity.
C5_Witness ==
  \E c \in Finished : \E u, v \in conn[c].sp.snap :
    /\ u.conn # c /\ u.uid = conn[c].uid
    /\ u.lang # conn[c].lang /\ Canon(u.lang) = Source(c)
    /\ v.uid # conn[c].uid

\* C6 (as claimed): when the oracle failed for one group, the members of
\* every other group were sent their own group's translation and the
\* members of the failing group were sent the original text.
C6_OracleFailureIsolated ==
  \A c \in Finished : \A bad \in TargetCodes(c) :
    OracleFailed(c, bad) =>
      /\ \A u \in GroupOf(c, bad) : \A i \in SentTo(c, u.conn) :
           conn[c].sp.sent[i].msg.translated_text = OriginalText(Source(c))
      /\ \A code \in TargetCodes(c) \ {bad} :
           ~OracleFailed(c, code) =>
             \A u \in GroupOf(c, code) :
               /\ SentTo(c, u.conn) # {}
               /\ \A i \in SentTo(c, u.conn) :
                    conn[c].sp.sent[i].msg.translated_text = OwnTranslation(c, code)

\* C7 (as claimed): when the synthesizer failed for a group whose
\* translation succeeded, the members of the group were sent the group's
\* translated text with no audio_url.
C7_SynthFailureKeepsText ==
  \A c \in Finished : \A code \in TargetCodes(c) :
    (SynthFailed(c, code) /\ ~OracleFailed(c, code)) =>
      \A u \in GroupOf(c, code) :
        /\ SentTo(c, u.conn) # {}
        /\ \A i \in SentTo(c, u.conn) :
             /\ conn[c].sp.sent[i].msg.translated_text = OwnTranslation(c, code)
             /\ conn[c].sp.sent[i].msg.audio_url = NoAudio

\* C8, the recipients: whichever sends failed, every member of the snapshot
\* has been sent the message event when the dispatch has returned.
C8_AllSent ==
  \A c \in Finished : \A u \in conn[c].sp.snap : SentTo(c, u.conn) # {}

\* C8, the sender: the step that sends a message event, failed or not, leaves
\* the sender in the send loop or back in its receive loop, still a member.
C8_SenderGoesOn ==
  \A c \in Conns :
    (conn[c].pc = "sp_send" /\ conn'[c].sp # conn[c].sp) =>
      /\ conn'[c].pc \in {"sp_send", "recv"}
      /\ conn'[c].rid \in DOMAIN rooms'
      /\ c \in DictKeys(rooms'[conn'[c].rid].users)

\* C8: a failed send to one recipient neither keeps the message event from
\* the other members of the snapshot nor closes the sender's session.
C8_FailedSendIsolated == []C8_AllSent /\ [][C8_SenderGoesOn]_vars

\* C8 witness: a finished dispatch with a failed send followed by a send
\* that succeeded.
C8_Witness ==
  \E c \in Finished : \E i, j \in 1..Len(conn[c].sp.sent) :
    i < j /\ ~conn[c].sp.sent[i].ok /\ conn[c].sp.sent[j].ok

\* C9: the connections a dispatch sends to are members the room had when
\* the dispatch started, and when it has returned they are all of them,
\* whoever joined or left meanwhile.
C9_RecipientsAreSnapshot ==
  \A c \in Conns :
    LET to == {conn[c].sp.sent[i].msg.to : i \in 1..Len(conn[c].sp.sent)}
        snap == {u.conn : u \in conn[c].sp.snap}
    IN /\ to \subseteq snap
       /\ conn[c].sp.done => to = snap

\* C9 witness: a finished dispatch during which one connection joined the
\* room and a member of the snapshot left it.
C9_Witness ==
  \E c \in Finished :
    LET now == DictKeys(rooms[conn[c].rid].users)
        snap == {u.conn : u \in conn[c].sp.snap}
    IN now \ snap # {} /\ snap \ now # {}

LastLeave(c, r) ==
  /\ r \in DOMAIN rooms
  /\ DictKeys(rooms[r].users) = {c}
  /\ r \in DOMAIN rooms' => c \notin DictKeys(rooms'[r].users)

\* C12 (as claimed): when the cleanup of a room's last member has ended and
\* no other connection has to do with the room, the room is in neither the
\* registry nor the hash entries nor the public set of the directory.
C12_Original ==
  [][\A c \in Conns :
       (/\ conn[c].pc \in {"cl_del", "cl_srem"} /\ conn[c].isuser
        /\ conn'[c].pc = "closed"
        /\ \A d \in Conns \ {c} : conn[d].rid # conn[c].rid)
       => /\ conn[c].rid \notin DOMAIN rooms'
          /\ conn[c].rid \notin DOMAIN redis'.hash
          /\ conn[c].rid \notin redis'.public]_vars

\* C12, the registry: the step that takes the last member out of a room
\* takes the room out of the registry and goes on to the directory delete.
C12_RegistryAtOnce ==
  \A c \in Conns : \A r \in DOMAIN rooms :
    LastLeave(c, r) => r \notin DOMAIN rooms' /\ conn'[c].pc = "cl_del"

\* C12, the directory: the delete call removes the hash entry and goes on
\* to the set removal, or fails and ends the cleanup with the directory as
\* it was; the set removal removes the id from the public set or fails.
C12_DirectoryWhenOk ==
  \A c \in Conns :
    /\ (conn[c].pc = "cl_del" /\ StepOf(c)) =>
         \/ /\ conn'[c].pc = "cl_srem"
            /\ conn[c].rid \notin DOMAIN redis'.hash
            /\ redis'.public = redis.public
         \/ conn'[c].pc = "closed" /\ redis' = redis
    /\ (conn[c].pc = "cl_srem" /\ StepOf(c)) =>
         /\ conn'[c].pc = "closed"
         /\ redis'.hash = redis.hash
         /\ redis'.public \in {redis.public, redis.public \ {conn[c].rid}}

\* C12, the second removal: a task that ends while its room id is not in
\* the registry removes nothing and ends as any task does.
C12_AbsentIsNoop ==
  \A c \in Conns :
    (/\ conn[c].rid # "" /\ conn[c].rid \notin DOMAIN rooms
     /\ conn[c].pc \in {"c_hset", "c_sadd", "j_hset", "j_sadd"}
     /\ conn'[c].pc \notin {"c_hset", "c_sadd", "j_hset", "j_sadd"})
    => rooms' = rooms /\ conn'[c] = ClosedConn

\* C12 (amended): when the last member of a room disconnects the room
\* leaves the registry in that step; the hash entry leaves the directory
\* when the delete call succeeds and the public set when the set removal
\* that follows succeeds, and a failed delete leaves both; a cleanup for an
\* id that is not in the registry is a no-op that raises no error.
C12_LastLeaveRemoves ==
  [][C12_RegistryAtOnce /\ C12_DirectoryWhenOk /\ C12_AbsentIsNoop]_vars

\* C12 witness: the last member's delete call has succeeded and its set
\* removal is pending.
C12_Witness ==
  \E c \in Conns :
    /\ conn[c].pc = "cl_srem" /\ conn[c].isuser
    /\ conn[c].rid \notin DOMAIN rooms
    /\ conn[c].rid \notin DOMAIN redis.hash
    /\ conn[c].rid \in redis.public

\* C13 (as claimed): a room leaves the registry only by a step in which its
\* single member leaves it.
C13_DeletedOnlyByLastLeave ==
  [][\A r \in DOMAIN rooms :
       r \notin DOMAIN rooms' =>
         \E c \in Conns : DictKeys(rooms[r].users) = {c} /\ conn'[c].pc = "cl_del"]_vars

\* C15 (as claimed): a handshake with an explicit id that is not in the
\* registry creates the room, and when its directory calls have returned
\* the connection is a member of the room with that id.
C15_AutoCreateJoins ==
  [][\A c \in Conns :
       /\ (conn[c].pc = "accept" /\ conn'[c].pc = "j_hset")
            => conn'[c].rid \in DOMAIN rooms'
       /\ (conn[c].pc \in {"j_hset", "j_sadd"} /\ StepOf(c)
           /\ conn'[c].pc # "j_sadd")
            => /\ conn'[c].pc = "joined_send"
               /\ conn[c].rid \in DOMAIN rooms'
               /\ c \in DictKeys(rooms'[conn[c].rid].users)]_vars

\* a directory write of c's room creation fails in this step
HsetFailed(c) ==
  /\ conn[c].pc \in {"c_hset", "j_hset"} /\ conn[c].pub /\ StepOf(c)
  /\ conn'[c].pc \notin {"c_sadd", "j_sadd"}
SaddFailed(c) ==
  /\ conn[c].pc \in {"c_sadd", "j_sadd"} /\ StepOf(c)
  /\ conn[c].rid \notin redis'.public

\* C16 (as claimed): after a failed directory write the join completes with
\* the member registered; a directory delete, failed or not, leaves the
\* registry as the cleanup made it and ends the cleanup without an error.
C16_DirectoryFailureSwallowed ==
  [][\A c \in Conns :
       /\ (HsetFailed(c) \/ SaddFailed(c))
            => /\ conn'[c].pc = "joined_send"
               /\ conn[c].rid \in DOMAIN rooms'
               /\ c \in DictKeys(rooms'[conn[c].rid].users)
       /\ (conn[c].pc = "cl_del" /\ StepOf(c))
            => /\ rooms' = rooms
               /\ conn[c].rid \notin DOMAIN rooms
               /\ conn'[c].pc \in {"cl_srem", "closed"}]_vars

\* C19: every connection is a key of at most one member map, at most once;
\* the session under it names that room; a connection whose cleanup has
\* begun, or whose task has ended, is in no member map.
C19_OneRoomPerSession ==
  \A c \in Conns :
    /\ Cardinality({r \in DOMAIN rooms : c \in DictKeys(rooms[r].users)}) <= 1
    /\ \A r \in DOMAIN rooms :
         /\ Cardinality({i \in 1..Len(rooms[r].users) : rooms[r].users[i] = c}) <= 1
         /\ c \in DictKeys(rooms[r].users) =>
              /\ conn[c].rid = r /\ conn[c].isuser
              /\ conn[c].ctx # "leave" /\ conn[c].pc # "closed"

\* C19 witness: a session that was removed from a room that still has
\* another member.
C19_Witness ==
  \E c, d \in Conns :
    /\ c # d /\ conn[c].ctx = "leave" /\ conn[c].isuser
    /\ conn[c].rid \in DOMAIN rooms
    /\ d \in DictKeys(rooms[conn[c].rid].users)

\* ----------------------------------------------------------- presentation
\* C20 (as claimed): a start_presentation event from a member sets the
\* room's presenter to that member's identity, whatever it was; and when the
\* handling of the event ends, the member is back in its receive loop and
\* every other member of the room has been sent presentation_started.
C20_StartNotifiesOthers ==
  [][\A c \in Conns :
       /\ (conn[c].pc = "recv" /\ conn'[c].ctx = "present")
            => rooms'[conn[c].rid].active_presenter = conn[c].uid
       /\ (conn[c].ctx = "present" /\ StepOf(c) /\ conn'[c].ctx # "present")
            => /\ conn'[c].pc = "recv"
               /\ conn[c].rid \in DOMAIN rooms'
               /\ DictKeys(rooms'[conn[c].rid].users) \ {c} \subseteq
                    conn[c].psent \cup
                      (IF conn[c].pc = "ps_send" THEN {conn[c].it.tgt} ELSE {})]_vars

\* -------------------------------------------------------------- signaling
\* connection c receives a signaling event in this step
SignalArrives(c) ==
  conn[c].pc = "recv" /\ conn'[c].sig.n = conn[c].sig.n + 1

\* the members of c's room that have the identity uid
WithIdentity(c, uid) ==
  IF conn[c].rid \in DOMAIN rooms
  THEN {k \in DictKeys(rooms[conn[c].rid].users) : conn[k].uid = uid}
  ELSE {}

\* C11: a signaling event whose target matches no member of the sender's
\* room (or that names no target) hands no event to any socket, sends no
\* error to the sender and leaves the sender in its main loop; nothing else
\* changes either.
C11_UnmatchedDropped ==
  /\ [](\A c \in Conns : conn[c].sig.to = 0 => conn[c].sig.sent = <<>>)
  /\ [][\A c \in Conns :
          (SignalArrives(c) /\ WithIdentity(c, conn'[c].sig.target) = {})
            => /\ conn'[c].pc = "recv"
               /\ conn'[c].sig.to = 0
               /\ conn'[c].sig.sent = <<>>
               /\ conn'[c].alive
               /\ conn'[c].nerr = conn[c].nerr
               /\ \A d \in Conns \ {c} : conn'[d] = conn[d]
               /\ rooms' = rooms
               /\ redis' = redis]_vars

\* an unmatched signal was dropped while another room holds the identity
C11_Witness ==
  \E c \in Conns :
    /\ conn[c].pc = "recv"
    /\ conn[c].sig.n > 0
    /\ conn[c].sig.target # ""
    /\ conn[c].sig.to = 0
    /\ conn[c].sig.sent = <<>>
    /\ \E d \in Conns : /\ conn[d].pc = "recv"
                        /\ conn[d].rid # conn[c].rid
                        /\ conn[d].uid = conn[c].sig.target

\* C17: a signaling event whose target matches a member of the sender's room
\* is handed to one socket: that of the first member of the sender's room,
\* in joining order, with that identity; the event carries the sender's
\* identity, and the sender goes back to its main loop.
C17_SendResolved ==
  \A c \in Conns :
    /\ Len(conn[c].sig.sent) <= 1
    /\ \A i \in 1..Len(conn[c].sig.sent) : conn[c].sig.sent[i].to = conn[c].sig.to
    /\ conn[c].pc = "sig_send"
         => /\ conn[c].sig.to # 0
            /\ conn[c].sig.sent = <<>>
            /\ conn[conn[c].sig.to].pc # "closed"
                 => /\ conn[conn[c].sig.to].uid = conn[c].sig.target
                    /\ conn[conn[c].sig.to].rid = conn[c].rid

C17_MatchedForwardedOnce ==
  /\ []C17_SendResolved
  /\ [][\A c \in Conns :
          /\ (SignalArrives(c) /\ WithIdentity(c, conn'[c].sig.target) # {})
               => /\ conn'[c].pc = "sig_send"
                  /\ conn'[c].sig.to \in WithIdentity(c, conn'[c].sig.target)
                  /\ conn'[c].sig.to =
                       FirstWithUid(rooms[conn[c].rid].users, conn,
                                    conn'[c].sig.target)
          /\ (conn[c].pc = "sig_send" /\ StepOf(c))
               => /\ conn'[c].pc = "recv"
                  /\ Len(conn'[c].sig.sent) = 1
                  /\ conn'[c].sig.sent[1].to = conn[c].sig.to
                  /\ conn'[c].sig.sent[1].sender = conn[c].uid]_vars

\* a signal went to the first of two members with the target identity while
\* a connection of another room has that identity too
C17_Witness ==
  \E c \in Conns :
    /\ conn[c].pc = "recv"
    /\ Len(conn[c].sig.sent) = 1
    /\ conn[c].sig.sent[1].ok
    /\ conn[c].sig.sent[1].to # c
    /\ \E d \in Conns \ {conn[c].sig.to} :
         /\ conn[d].pc = "recv"
         /\ conn[d].rid = conn[c].rid
         /\ conn[d].uid = conn[c].sig.target
    /\ \E e \in Conns :
         /\ conn[e].pc = "recv"
         /\ conn[e].rid # conn[c].rid
         /\ conn[e].uid = conn[c].sig.target

\* ---------------------------------------------------------- room creation
\* connection c's handshake is handled in this step and its room id is r
HandshakeFor(c, r) ==
  conn[c].pc = "accept" /\ conn'[c].pc # "accept" /\ conn'[c].rid = r

\* C14: a handshake whose room id, generated or explicit, is the id of a
\* room of the registry leaves that Room object in the registry, with its
\* settings and its members; at most the connection itself is added.
C14_RoomKept ==
  \A c \in Conns : \A r \in DOMAIN rooms :
    HandshakeFor(c, r)
      => /\ r \in DOMAIN rooms'
         /\ rooms'[r].by = rooms[r].by
         /\ rooms'[r].is_public = rooms[r].is_public
         /\ rooms'[r].password = rooms[r].password
         /\ rooms'[r].active_presenter = rooms[r].active_presenter
         /\ DictKeys(rooms'[r].users) \ {c} = DictKeys(rooms[r].users)

C14_CreationKeepsExisting == [][C14_RoomKept]_vars

\* ---------------------------------------------------------------- closing
\* member c's task enters its finally block in this step
Closing(c) ==
  /\ conn[c].isuser
  /\ conn[c].ctx # "leave"
  /\ conn'[c].ctx = "leave" \/ conn'[c].pc = "closed"

\* the members of c's room other than c
Others(R, c) ==
  IF conn[c].rid \in DOMAIN R THEN DictKeys(R[conn[c].rid].users) \ {c} ELSE {}

\* c is no member of the room of its id
NotIn(R, c) ==
  conn[c].rid \in DOMAIN R => c \notin DictKeys(R[conn[c].rid].users)

\* the sockets the broadcasts of c's task have sent to once this step is over
SentSys(c) ==
  conn[c].bsent.sys \cup (IF conn[c].pc = "sys_send" THEN {conn[c].it.tgt} ELSE {})
SentPl(c) ==
  conn[c].bsent.pl \cup (IF conn[c].pc = "pl_send" THEN {conn[c].it.tgt} ELSE {})

\* the session row is closed (when the database allows it) and the member
\* is out of its room before any later effect
C18_HistoryAndRemovalFirst ==
  \A c \in Conns :
    conn[c].ctx = "leave"
      => /\ conn[c].hist = "open" => ~conn[c].dbok.end
         /\ NotIn(rooms, c)

\* the step into the finally block closes the session row, removes the
\* member whether or not that failed, and deletes the room if it is empty
C18_ClosingStep ==
  \A c \in Conns :
    Closing(c)
      => /\ (conn[c].hist = "open" /\ conn[c].dbok.end) => conn'[c].hist = "ended"
         /\ NotIn(rooms', c)
         /\ Others(rooms, c) = {}
              => conn[c].rid \notin DOMAIN rooms' /\ conn'[c].pc = "cl_del"
         /\ Others(rooms, c) # {}
              => /\ conn[c].rid \in DOMAIN rooms'
                 /\ conn'[c].pc \in {"sys_send", "pl_send"}

\* the task of a member that left a room with other members ends only when
\* every member of the room was sent the leave message and the list
C18_RemainingNotified ==
  \A c \in Conns :
    (conn[c].isuser /\ conn[c].ctx = "leave"
       /\ conn[c].pc \in {"sys_send", "pl_send"} /\ conn'[c].pc = "closed")
      => /\ Others(rooms', c) \subseteq SentSys(c)
         /\ Others(rooms', c) \subseteq SentPl(c)

\* C18: on the way to Closed the history session is closed first, then the
\* session is removed from its room, then the room is deleted if it is
\* empty, or else the remaining members are sent the leave system message
\* and the participant list; a failure to close the history session
\* prevents none of the later steps.
C18_CloseEffectsInOrder ==
  /\ []C18_HistoryAndRemovalFirst
  /\ [][C18_ClosingStep /\ C18_RemainingNotified]_vars

\* C21: a stop_presentation event from member c clears the presenter of the
\* room, and when its loop is over every other member was sent the
\* presentation_stopped notice and c's own connection was not.
C21_StopNotifiesOthersOnly ==
  [][\A c \in Conns :
       /\ (conn[c].pc = "recv" /\ conn[c].ctx = "" /\ conn'[c].pc = "st_send")
            => rooms'[conn[c].rid].active_presenter = ""
       /\ (conn[c].pc = "st_send" /\ conn'[c].pc = "recv")
            => /\ Others(rooms', c) \subseteq conn[c].psent \cup {conn[c].it.tgt}
               /\ c \notin conn[c].psent \cup {conn[c].it.tgt}]_vars

\* the socket the notice send of c's task, now completing, goes to
NoticeTarget(c) == IF conn[c].pc = "lj_nv" THEN conn[c].ljm ELSE conn[c].it.tgt

\* C22: when the send of a presentation_started, presentation_stopped or
\* new_viewer notice to another connection fails, the task that sends it
\* goes on: it is not closed, does not enter its finally block and stays a
\* member of its room.
C22_FailedNoticeSkipsRecipient ==
  [][\A c \in Conns :
       (/\ conn[c].pc \in {"ps_send", "st_send", "lj_nv"}
        /\ StepOf(c)
        /\ NoticeTarget(c) # c
        /\ ~conn'[NoticeTarget(c)].alive)
         => /\ conn'[c].pc # "closed"
            /\ conn'[c].ctx # "leave"
            /\ conn[c].rid \in DOMAIN rooms'
            /\ c \in DictKeys(rooms'[conn[c].rid].users)]_vars

\* the broadcast of the system notice of c's join or leave ends in this step
\* without an exception
NoticeOver(c) ==
  /\ conn[c].isuser
  /\ conn[c].ctx \in {"join", "leave"}
  /\ conn[c].pc = "sys_send"
  /\ StepOf(c)
  /\ conn'[c].pc = "pl_send"
  /\ conn'[c].ctx = conn[c].ctx

\* C23: the system notice of a join or of a leave that does not empty the
\* room is sent to every member connection of the room but the joiner or
\* leaver itself, and to no other.
C23_NoticeToAllButActor ==
  [][\A c \in Conns :
       NoticeOver(c) => SentSys(c) = Others(rooms', c)]_vars

\* the members of c's room
MembersNow(R, c) ==
  IF conn[c].rid \in DOMAIN R THEN DictKeys(R[conn[c].rid].users) ELSE {}

\* the join of c, whose room_joined was sent, or the leave of c from a room
\* that keeps members, is over with this step
Announced(c) ==
  /\ conn[c].isuser
  /\ \/ /\ conn[c].ctx = "join"
        /\ conn[c].pc \in {"lj_ps", "lj_nv", "sys_send", "pl_send"}
        /\ conn'[c].ctx # "join"
     \/ /\ conn[c].ctx = "leave"
        /\ conn[c].pc \in {"sys_send", "pl_send"}
        /\ conn'[c].pc = "closed"

\* the participant-list broadcast of c's task starts with this step
ListBuilt(c) ==
  conn'[c].pc = "pl_send" /\ conn[c].pc # "pl_send"

\* C24: the list of a participants broadcast has one entry for each
\* connection that is a member of the room when the broadcast starts, and
\* when a join or a leave that keeps the room is over every member of the
\* room was sent the participants event.
C24_ParticipantsToAll ==
  [][\A c \in Conns :
       /\ ListBuilt(c)
            => /\ {conn'[c].bsent.list[i].conn :
                     i \in 1..Len(conn'[c].bsent.list)} = MembersNow(rooms', c)
               /\ Len(conn'[c].bsent.list) = Cardinality(MembersNow(rooms', c))
       /\ Announced(c) => MembersNow(rooms', c) \subseteq SentPl(c)]_vars

\* ------------------------------------------------------------- list_rooms
\* the answer lists room rid with n members
Listed(answer, rid, n) ==
  \E e \in answer : e.id = rid /\ e.users_count = n

\* C25: when the directory can be read, the answer of list_rooms has an
\* entry, with the local member count, for every public room of the
\* registry whose creation is over, and an entry with count 0 for every
\* public room that only the directory knows.
C25_ListsLocalAndDirectory ==
  LET answer == list_rooms(rooms, redis, TRUE) IN
  /\ \A rid \in DOMAIN rooms :
       (rooms[rid].is_public /\ \A c \in Conns : ~InWindow(c, rid))
         => Listed(answer, rid, Cardinality(DictKeys(rooms[rid].users)))
  /\ \A rid \in redis.public :
       (rid \in DOMAIN redis.hash /\ rid \notin DOMAIN rooms)
         => Listed(answer, rid, 0)

\* ------------------------------------------------------------ other events
\* C26: an event whose type is none of speech, signal_offer, signal_answer,
\* signal_ice, start_presentation and stop_presentation changes nothing:
\* no send is started, the registry, the member maps, the presenters and
\* the directory stay as they are, and the receiving task stays in its main
\* loop.
C26_UnknownIgnored ==
  [][\A c \in Conns :
       conn'[c].nother = conn[c].nother + 1
         => /\ rooms' = rooms
            /\ redis' = redis
            /\ conn'[c] = [conn[c] EXCEPT !.nother = @ + 1]
            /\ conn'[c].pc = "recv"
            /\ \A d \in Conns \ {c} : conn'[d] = conn[d]]_vars

\* an event of another type was received in a room with a presenter and
\* at least two members
C26_Witness ==
  \E c \in Conns :
    /\ conn[c].pc = "recv"
    /\ conn[c].nother > 0
    /\ conn[c].rid \in DOMAIN rooms
    /\ rooms[conn[c].rid].active_presenter # ""
    /\ Cardinality(DictKeys(rooms[conn[c].rid].users)) >= 2

\* ---------------------------------------------------------------- presenter
\* C27: the presenter of a room is absent or is the identity of a connection
\* that is a member of the room now.
C27_PresenterIsMember ==
  \A r \in DOMAIN rooms :
    \/ rooms[r].active_presenter = ""
    \/ \E k \in DictKeys(rooms[r].users) : conn[k].uid = rooms[r].active_presenter

\* ------------------------------------------------------ membership updates
\* the handshake of c for an explicit room id, with a password the room
\* accepts, is through with this step
ExplicitJoinOver(c) ==
  /\ StepOf(c)
  /\ \/ conn[c].pc = "accept" /\ conn'[c].alive /\ conn'[c].pc # "c_hset"
     \/ conn[c].pc \in {"j_hset", "j_sadd"}
  /\ conn'[c].pc \notin {"j_hset", "j_sadd"}
  /\ ~conn'[c].wrongpw

\* every handshake for an explicit id ends with the connection in the member
\* map of the room of that id
C28_JoinsNotLost ==
  \A c \in Conns :
    ExplicitJoinOver(c)
      => /\ conn'[c].rid \in DOMAIN rooms'
         /\ c \in DictKeys(rooms'[conn'[c].rid].users)

\* a member map loses a connection only by that connection's own cleanup,
\* which removes that connection and no other
C28_LeavesRemoveOwn ==
  /\ \A r \in DOMAIN rooms : \A k \in DictKeys(rooms[r].users) :
       (r \notin DOMAIN rooms' \/ k \notin DictKeys(rooms'[r].users))
         => conn[k].ctx # "leave" /\ (conn'[k].ctx = "leave" \/ conn'[k].pc = "closed")
  /\ \A c \in Conns :
       (Closing(c) /\ conn[c].rid \in DOMAIN rooms')
         => DictKeys(rooms'[conn[c].rid].users) = MembersNow(rooms, c) \ {c}

\* C28: no membership update is lost: connections that handshake for the
\* same explicit id find or create one room and all become members of it,
\* and leaves remove exactly the leaving connection.
C28_NoLostUpdate ==
  [][C28_JoinsNotLost /\ C28_LeavesRemoveOwn /\ C14_RoomKept]_vars

\* ---------------------------------------------------------------- directory
\* no task is inside a handshake or a cleanup
Settled ==
  \A c \in Conns : conn[c].pc \in {"accept", "recv", "closed"}

\* C29: with a directory that never fails, whenever no handshake and no
\* cleanup is under way every public room of the registry that has a member
\* is in the directory's set of public rooms.
C29_PublicRoomsInDirectory ==
  Settled =>
    \A r \in DOMAIN rooms :
      (rooms[r].is_public /\ DictKeys(rooms[r].users) # {})
        => r \in redis.public /\ r \in DOMAIN redis.hash

\* ------------------------------------------------------- unguarded iteration
\* C30: while the system-message or participant-list broadcast of its own
\* join iterates the members, a registered session is not ended: whatever
\* the other connections do to the member map, the task goes on to its main
\* loop and stays a member of its room.
C30_JoinBroadcastSurvives ==
  [][\A c \in Conns :
       (/\ conn[c].isuser
        /\ conn[c].ctx = "join"
        /\ conn[c].pc \in {"sys_send", "pl_send"}
        /\ StepOf(c))
         => /\ conn'[c].pc \in {"sys_send", "pl_send", "recv"}
            /\ conn'[c].ctx # "leave"
            /\ conn[c].rid \in DOMAIN rooms'
            /\ c \in DictKeys(rooms'[conn[c].rid].users)]_vars

\* ------------------------------------------------------------- confinement
\* the members of the rooms of the registry R that connection c is a
\* member of
RoomMates(R, c) ==
  UNION {DictKeys(R[r].users) : r \in {x \in DOMAIN R : c \in DictKeys(R[x].users)}}

\* c's task takes an inbound event in this step and goes on in the try block
Handles(c) ==
  /\ conn[c].pc = "recv" /\ conn[c].alive
  /\ conn'[c].alive
  /\ conn'[c].pc \in {"recv", "sys_send", "ps_send", "st_send",
                      "sp_tr", "sp_tts", "sp_send"}
  /\ \A d \in Conns \ {c} : ~StepOf(d)

\* the connections the dispatch of c's speech event will send to
SpeechTargets(c) ==
  UNION {{conn'[c].sp.groups[g].users[u].conn :
            u \in DOMAIN conn'[c].sp.groups[g].users} :
         g \in DOMAIN conn'[c].sp.groups}

\* the recipients c's task chooses in this step, for the speech event it
\* takes or as the next recipient of the system message and the
\* presentation notices of its event, are members of c's room
C31_Recipients(c) ==
  /\ (Handles(c) /\ conn'[c].pc \in {"sp_tr", "sp_tts", "sp_send"})
       => SpeechTargets(c) \subseteq RoomMates(rooms', c)
  /\ (/\ StepOf(c)
      /\ \/ conn'[c].pc \in {"ps_send", "st_send"}
         \/ conn'[c].pc = "sys_send" /\ conn'[c].ctx = "present")
       => conn'[c].it.tgt \in RoomMates(rooms', c)

\* the step in which c's task takes an inbound event changes the member map
\* and the presenter of no room that c is not a member of
C31_OtherRooms(c) ==
  Handles(c)
    => \A r \in DOMAIN rooms :
         c \notin DictKeys(rooms[r].users)
           => /\ r \in DOMAIN rooms'
              /\ rooms'[r].users = rooms[r].users
              /\ rooms'[r].active_presenter = rooms[r].active_presenter

\* C31: speech, system and presentation events are confined to their room:
\* an inbound event from connection c is sent only to members of the room
\* c is a member of, and changes the member map and the presenter of no
\* other room.
C31_ConfinedToRoom ==
  [][\A c \in Conns : C31_Recipients(c) /\ C31_OtherRooms(c)]_vars

====
